---- MODULE Spec2Model ----
(***************************************************************************)
(* Model of the report routes of carFinanceBackend (src/routes/reports.js):*)
(* the bearer-token middleware, the aggregate report handlers, the         *)
(* session-scoped profit correction and the PDF export pipeline.           *)
(*                                                                         *)
(* One request is observed at a time: req is the request being served,     *)
(* res the response sink of that request, and the counters record what the *)
(* handler did while serving it.  The customer and payment tables are the  *)
(* data store the handlers read.                                           *)
(***************************************************************************)
EXTENDS Integers, Sequences, FiniteSets, TLC

VARIABLES
    customers,      \* the customers table: row i is the customer with id i
    payments,       \* the payments table
    sessions,       \* session id -> the session's correctedProfit
    req,            \* the request being served
    res,            \* the response sink of that request
    entered,        \* whether the route handler of req was entered
    queries,        \* data-store queries issued while serving req
    sessionWrites,  \* session fields written while serving req
    queryFailed,    \* a data-store query rejected while serving req
    doc,            \* the PDFDocument of req (export/payments/pdf)
    pc,             \* "drawing" while the PDF handler draws, else "idle"
    piped,          \* doc is piped to res and holds chunks not yet written
    writeAfterEnd   \* a write reached res after res had been ended

vars == <<customers, payments, sessions, req, res, entered, queries,
          sessionWrites, queryFailed, doc, pc, piped, writeAfterEnd>>

----------------------------------------------------------------------------
(* Bounds of the model.                                                    *)

MaxCustomers == 2
MaxPayments == 2
MaxSessions == 2
MaxRows == 16

----------------------------------------------------------------------------
(* JavaScript values that can be a number, null, undefined or an array.    *)

Num(n) == [t |-> "number", v |-> n]
Null == [t |-> "null", v |-> 0]
Undefined == [t |-> "undefined", v |-> 0]
Arr(s) == [t |-> "array", v |-> s]

IsNum(x) == x.t = "number"

\* JavaScript truthiness of such a value: null, undefined and 0 are falsy,
\* every array (the empty one too) is truthy.
Truthy(x) ==
    CASE x.t = "number" -> x.v # 0
      [] x.t = "array" -> TRUE
      [] OTHER -> FALSE

\* x || 0
OrZero(x) == IF Truthy(x) THEN x ELSE Num(0)

RECURSIVE SumSeq(_)
SumSeq(s) == IF s = <<>> THEN 0 ELSE Head(s) + SumSeq(Tail(s))

\* SQL SUM / Sequelize sum: NULL over no rows, else the sum.
SqlSum(s) == IF s = <<>> THEN Null ELSE Num(SumSeq(s))

\* Array.prototype.reduce((sum, x) => sum + x, 0)
Reduce(s) == SumSeq(s)

\* the indices 1..n as a sequence
Idx(n) == [i \in 1..n |-> i]

----------------------------------------------------------------------------
(* Strings are sequences of characters.                                    *)

Str_Bearer == <<"B", "e", "a", "r", "e", "r">>
Str_BearerSp == Str_Bearer \o <<" ">>

StartsWith(s, p) == Len(s) >= Len(p) /\ SubSeq(s, 1, Len(p)) = p

RECURSIVE SplitFrom(_, _, _)
\* String.prototype.split(sep) for a one-character separator: cur is the
\* piece being read
SplitFrom(s, sep, cur) ==
    IF s = <<>> THEN <<cur>>
    ELSE IF Head(s) = sep THEN <<cur>> \o SplitFrom(Tail(s), sep, <<>>)
    ELSE SplitFrom(Tail(s), sep, Append(cur, Head(s)))

Split(s, sep) == SplitFrom(s, sep, <<>>)

\* The Authorization header of a request: absent, or a string.
NoHeader == [present |-> FALSE, value |-> <<>>]
Header(s) == [present |-> TRUE, value |-> s]

Headers ==
    { NoHeader,
      Header(<<>>),
      Header(Str_Bearer),
      Header(Str_BearerSp),
      Header(Str_BearerSp \o <<" ", "x">>),
      Header(<<"b", "e", "a", "r", "e", "r", " ", "x">>),
      Header(<<"B", "a", "s", "i", "c", " ", "x">>),
      Header(Str_BearerSp \o <<"x">>),
      Header(Str_BearerSp \o <<"x", "y", " ", "z">>) }

ValidHeader == Header(Str_BearerSp \o <<"x">>)

----------------------------------------------------------------------------
(* checkToken                                                              *)

\* authHeader.split(' ')[1]; a string with no second piece gives undefined,
\* which is falsy like the empty string
TokenOf(value) ==
    LET parts == Split(value, " ")
    IN  IF Len(parts) >= 2 THEN parts[2] ELSE <<>>

\* Whether checkToken calls next(), and the 401 message when it does not.
checkTokenPrefixOnly(h) ==
    IF ~h.present \/ h.value = <<>> \/ ~StartsWith(h.value, Str_BearerSp)
    THEN [next |-> FALSE, message |-> "No token provided"]
    ELSE [next |-> TRUE, message |-> ""]

checkToken(h) ==
    IF ~h.present \/ h.value = <<>> \/ ~StartsWith(h.value, Str_BearerSp)
    THEN [next |-> FALSE, message |-> "No token provided"]
    ELSE IF TokenOf(h.value) = <<>>
    THEN [next |-> FALSE, message |-> "Invalid token"]
    ELSE [next |-> TRUE, message |-> ""]

----------------------------------------------------------------------------
(* The data store.  A customer row holds the three amounts the reports     *)
(* read; a payment row holds its customer, amount, status and whether its  *)
(* due date lies before now (dates are abstracted to that one bit).        *)

Amounts == {1, 2}
Installments == {1}
Durations == {2}
Statuses == {"pending", "paid", "overdue"}

CustomerRows ==
    [leasingAmount : Amounts, monthlyInstallment : Installments,
     leaseDuration : Durations]

\* a payment that is paid or marked overdue was due before now
PaymentRows(n) ==
    { p \in [customerId : 1..n, amount : Amounts, status : Statuses,
             pastDue : BOOLEAN] : p.status = "pending" \/ p.pastDue }

StatusRank(st) == CASE st = "pending" -> 0 [] st = "paid" -> 1 [] OTHER -> 2

\* Rows of a table have no order of their own and ids are only names: one
\* representative per data set is enough, the one with the customers in
\* ascending order of leasing amount and the payments in ascending key order.
PaymentKey(p) ==
    ((p.customerId * 4 + p.amount) * 4 + StatusRank(p.status)) * 2
        + (IF p.pastDue THEN 0 ELSE 1)

Canonical(ps) ==
    \A i \in 1..(Len(ps) - 1) : PaymentKey(ps[i]) <= PaymentKey(ps[i + 1])

CustomerTables(maxC) ==
    { cs \in UNION { [1..n -> CustomerRows] : n \in 0..maxC } :
        \A i \in 1..(Len(cs) - 1) : cs[i].leasingAmount <= cs[i + 1].leasingAmount }

PaymentTables(n, maxP) ==
    { ps \in UNION { [1..k -> PaymentRows(n)] : k \in 0..maxP } : Canonical(ps) }

CustomerIds == 1..Len(customers)
PaymentIds == 1..Len(payments)

\* the payments of customer c, as indices into the payments table
PaymentsOf(c) ==
    SelectSeq(Idx(Len(payments)), LAMBDA j : payments[j].customerId = c)

\* ORDER BY dueDate ASC over a sequence of payment indices
OrderByDueDate(js) ==
    SelectSeq(js, LAMBDA j : payments[j].pastDue)
        \o SelectSeq(js, LAMBDA j : ~payments[j].pastDue)

RECURSIVE Reverse(_)
Reverse(s) == IF s = <<>> THEN <<>> ELSE Append(Reverse(Tail(s)), Head(s))

----------------------------------------------------------------------------
(* The response sink.                                                      *)

NoBody == [kind |-> "none"]

FreshRes ==
    [status |-> 200, contentType |-> "", disposition |-> "",
     body |-> NoBody, finished |-> FALSE]

\* res.status(code).json(body) on sink r: headers set earlier stay, the
\* content type becomes JSON
Json(r, code, body) ==
    [r EXCEPT !.status = code, !.contentType = "application/json",
              !.body = body, !.finished = TRUE]

Message(m) == [kind |-> "message", message |-> m]

NoDoc == [pages |-> <<>>, y |-> 0, row |-> 0, ended |-> FALSE, thrown |-> FALSE]

Request(endpoint, h, arg) ==
    [endpoint |-> endpoint, authorization |-> h, arg |-> arg]

\* the parameters of a request; an endpoint reads only its own
NoArg ==
    [status |-> "", customerId |-> 0, paymentStatus |-> "", totalProfit |-> 0,
     sid |-> 0]

\* A request is taken up when the stream of the previous one has drained.
\* What is recorded about it: the response, whether the handler ran, how
\* many queries it issued, whether one of them rejected, and how many
\* session fields it wrote.
Serve(r, response, ent, q, qf, sw) ==
    /\ ~piped
    /\ pc = "idle"
    /\ req' = r
    /\ res' = response
    /\ entered' = ent
    /\ queries' = q
    /\ queryFailed' = qf
    /\ sessionWrites' = sw

NoStream ==
    /\ doc' = NoDoc
    /\ pc' = "idle"
    /\ piped' = FALSE
    /\ writeAfterEnd' = FALSE

\* checkToken answering 401: the route handler is not called
Unauthorized(r) ==
    /\ Serve(r, Json(FreshRes, 401, Message(checkToken(r.authorization).message)),
             FALSE, 0, FALSE, 0)
    /\ NoStream
    /\ UNCHANGED <<customers, payments, sessions>>

\* catch (error) { res.status(500).json({ message }) } when the q-th query
\* of the handler rejected
ServerError(r, m, q) ==
    /\ Serve(r, Json(FreshRes, 500, Message(m)), TRUE, q, TRUE, 0)
    /\ NoStream
    /\ UNCHANGED <<customers, payments, sessions>>

\* res.json(body) after q queries, qf telling whether one of them rejected
Ok(r, body, q, qf) ==
    /\ Serve(r, Json(FreshRes, 200, body), TRUE, q, qf, 0)
    /\ NoStream
    /\ UNCHANGED <<customers, payments, sessions>>

----------------------------------------------------------------------------
(* GET /summary                                                            *)

\* EXISTS (SELECT 1 FROM payments p2 WHERE p2.customer_id = c.id
\*         AND p2.status = 'pending' AND p2.due_date < date('now'))
ExistsOverduePending(c) ==
    \E j \in PaymentIds :
        /\ payments[j].customerId = c
        /\ payments[j].status = "pending"
        /\ payments[j].pastDue

NotExistsPendingNoPayments(c) ==
    /\ \E j \in PaymentIds : payments[j].customerId = c
    /\ ~\E j \in PaymentIds :
           payments[j].customerId = c /\ payments[j].status = "pending"

\* NOT EXISTS (SELECT 1 FROM payments p2 WHERE p2.customer_id = c.id
\*             AND p2.status = 'pending')
NotExistsPending(c) ==
    ~\E j \in PaymentIds :
        payments[j].customerId = c /\ payments[j].status = "pending"

RECURSIVE LeftJoinFrom(_)
\* FROM customers c LEFT JOIN payments p ON c.id = p.customer_id, from
\* customer c on: one row per payment of the customer, and one row with a
\* NULL payment (p = 0) for a customer without payments
LeftJoinFrom(c) ==
    IF c > Len(customers) THEN <<>>
    ELSE (IF PaymentsOf(c) = <<>> THEN << [c |-> c, p |-> 0] >>
          ELSE [k \in 1..Len(PaymentsOf(c)) |-> [c |-> c, p |-> PaymentsOf(c)[k]]])
         \o LeftJoinFrom(c + 1)

LeftJoin == LeftJoinFrom(1)

\* CASE WHEN p.status = st THEN p.amount ELSE 0 END on a joined row
AmountIfStatus(row, st) ==
    IF row.p # 0 /\ payments[row.p].status = st THEN payments[row.p].amount ELSE 0

\* the row the summary query returns
SummaryRow ==
    LET rows == LeftJoin
        n == Len(rows)
    IN  [ total_customers |-> Num(Cardinality({ rows[k].c : k \in 1..n })),
          total_invested |->
              SqlSum([k \in 1..n |-> customers[rows[k].c].leasingAmount]),
          total_collected |-> SqlSum([k \in 1..n |-> AmountIfStatus(rows[k], "paid")]),
          total_pending |-> SqlSum([k \in 1..n |-> AmountIfStatus(rows[k], "pending")]),
          overdue_customers |->
              Num(Cardinality({ rows[k].c : k \in
                                  { i \in 1..n : ExistsOverduePending(rows[i].c) } })),
          completed_customers |->
              Num(Cardinality({ rows[k].c : k \in
                                  { i \in 1..n : NotExistsPending(rows[i].c) } })) ]

\* summary.total_profit = (total_collected || 0) - (total_invested || 0)
SummaryBody ==
    LET summary == SummaryRow
    IN  [ kind |-> "summary",
          total_customers |-> summary.total_customers,
          total_invested |-> summary.total_invested,
          total_collected |-> summary.total_collected,
          total_pending |-> summary.total_pending,
          overdue_customers |-> summary.overdue_customers,
          completed_customers |-> summary.completed_customers,
          total_profit |->
              Num(OrZero(summary.total_collected).v - OrZero(summary.total_invested).v) ]

Summary(h) ==
    LET r == Request("summary", h, NoArg)
    IN  IF ~checkToken(h).next THEN Unauthorized(r)
        ELSE \/ Ok(r, SummaryBody, 1, FALSE)
             \/ ServerError(r, "Error fetching financial summary", 1)

----------------------------------------------------------------------------
(* GET /monthly, GET /car-brands, GET /filtered                            *)

\* GROUP BY strftime('%Y-%m', dueDate) ORDER BY period DESC: with dates
\* abstracted to before/after now, a period is one of two months
MonthlyBucket(past) ==
    LET js == SelectSeq(Idx(Len(payments)), LAMBDA j : payments[j].pastDue = past)
        n == Len(js)
        paid == SelectSeq(js, LAMBDA j : payments[j].status = "paid")
        late == SelectSeq(js, LAMBDA j : payments[j].status = "pending" /\ past)
    IN  [ pastPeriod |-> past,
          total_payments |-> n,
          collected_amount |-> SumSeq([k \in 1..Len(paid) |-> payments[paid[k]].amount]),
          overdue_amount |-> SumSeq([k \in 1..Len(late) |-> payments[late[k]].amount]),
          overdue_payments |-> Len(late),
          completed_payments |-> Len(paid) ]

MonthlyBody ==
    [ kind |-> "monthly",
      rows |-> SelectSeq(<< MonthlyBucket(FALSE), MonthlyBucket(TRUE) >>,
                         LAMBDA b : b.total_payments > 0) ]

Monthly(h) ==
    LET r == Request("monthly", h, NoArg)
    IN  IF ~checkToken(h).next THEN Unauthorized(r)
        ELSE \/ Ok(r, MonthlyBody, 1, FALSE)
             \/ ServerError(r, "Server error", 1)

\* GROUP BY carBrand: the model's customers are all of one brand, so there
\* is one bucket when there is a customer.  AVG is kept as sum and count.
CarBrandsBody ==
    LET n == Len(customers)
    IN  [ kind |-> "car-brands",
          rows |-> IF n = 0 THEN <<>>
                   ELSE << [ total_cars |-> n,
                             total_leasing_amount |->
                                 SumSeq([c \in 1..n |-> customers[c].leasingAmount]),
                             installment_sum |->
                                 SumSeq([c \in 1..n |-> customers[c].monthlyInstallment]) ] >> ]

CarBrands(h) ==
    LET r == Request("car-brands", h, NoArg)
    IN  IF ~checkToken(h).next THEN Unauthorized(r)
        ELSE \/ Ok(r, CarBrandsBody, 1, FALSE)
             \/ ServerError(r, "Server error", 1)

\* Payment.findAll({ where: { status: paymentStatus }, include: Customer,
\* order: dueDate ASC }); the date range and the name filters are absent
FilteredBody(paymentStatus) ==
    [ kind |-> "filtered",
      payments |->
          OrderByDueDate(
              SelectSeq(Idx(Len(payments)),
                        LAMBDA j : /\ payments[j].customerId \in CustomerIds
                                   /\ (paymentStatus = ""
                                          \/ payments[j].status = paymentStatus))) ]

Filtered(h, paymentStatus) ==
    LET r == Request("filtered", h, [NoArg EXCEPT !.paymentStatus = paymentStatus])
    IN  IF ~checkToken(h).next THEN Unauthorized(r)
        ELSE \/ Ok(r, FilteredBody(paymentStatus), 1, FALSE)
             \/ ServerError(r, "Server error", 1)

----------------------------------------------------------------------------
(* GET /customers                                                          *)

\* the WHERE conditions built from req.query.status; search and car_brand
\* are absent from the modelled requests
CustomerCondition(status, c) ==
    CASE status = "overdue" -> ExistsOverduePending(c)
      [] status = "completed" -> NotExistsPending(c)
      [] OTHER -> TRUE

\* the aggregates of one customer group of the LEFT JOIN
CustomerReportRow(c) ==
    LET js == PaymentsOf(c)
        paid == SelectSeq(js, LAMBDA j : payments[j].status = "paid")
        pend == SelectSeq(js, LAMBDA j : payments[j].status = "pending")
    IN  [ id |-> c,
          total_payments |-> Len(js),
          payments_made |-> Len(paid),
          total_paid |-> SumSeq([k \in 1..Len(paid) |-> payments[paid[k]].amount]),
          remaining_amount |-> SumSeq([k \in 1..Len(pend) |-> payments[pend[k]].amount]) ]

\* ORDER BY c.creation_date DESC: customers are numbered in creation order
CustomersBody(status) ==
    LET ids == Reverse(SelectSeq(Idx(Len(customers)),
                                 LAMBDA c : CustomerCondition(status, c)))
    IN  [ kind |-> "customers",
          rows |-> [k \in 1..Len(ids) |-> CustomerReportRow(ids[k])] ]

StatusFilters == {"", "overdue", "completed"}

Customers(h, status) ==
    LET r == Request("customers", h, [NoArg EXCEPT !.status = status])
    IN  IF ~checkToken(h).next THEN Unauthorized(r)
        ELSE \/ Ok(r, CustomersBody(status), 1, FALSE)
             \/ ServerError(r, "Error fetching customer report", 1)

----------------------------------------------------------------------------
(* GET /customer/:customerId/history                                       *)

HistoryBody(customerId) ==
    LET found == OrderByDueDate(PaymentsOf(customerId))
        paid == SelectSeq(found, LAMBDA j : payments[j].status = "paid")
        pend == SelectSeq(found, LAMBDA j : payments[j].status = "pending")
    IN  [ kind |-> "history",
          totalAmount |-> Reduce([k \in 1..Len(found) |-> payments[found[k]].amount]),
          paidAmount |-> Reduce([k \in 1..Len(paid) |-> payments[paid[k]].amount]),
          remainingAmount |-> Reduce([k \in 1..Len(pend) |-> payments[pend[k]].amount]),
          payments |-> found ]

History(h, customerId) ==
    LET r == Request("history", h, [NoArg EXCEPT !.customerId = customerId])
    IN  IF ~checkToken(h).next THEN Unauthorized(r)
        ELSE \/ Ok(r, HistoryBody(customerId), 1, FALSE)
             \/ ServerError(r, "Server error", 1)

----------------------------------------------------------------------------
(* GET /dashboard                                                          *)

\* Customer.count()
TotalCustomersQuery == Num(Len(customers))

\* Customer.count({ include: [{ model: Payment, where: { status: 'pending' },
\* required: true }] }): COUNT(Customer.id) over the inner join, one joined
\* row per pending payment
ActiveLeasesQuery ==
    Num(Cardinality({ j \in PaymentIds : /\ payments[j].customerId \in CustomerIds
                                         /\ payments[j].status = "pending" }))

\* Customer.count({ include: [... required: false], having: COUNT(CASE WHEN
\* status = "pending" THEN 1 END) = 0, group: ['Customer.id'] }): a count
\* with group resolves to the array of the groups, each with its own count.
\* A group that passes HAVING joined no pending payment, so it is the one
\* row the outer join keeps for its customer.
FullyPaidCustomersQuery ==
    LET kept == SelectSeq(Idx(Len(customers)),
                   LAMBDA c : Cardinality({ j \in PaymentIds :
                                  /\ payments[j].customerId = c
                                  /\ payments[j].status = "pending" }) = 0)
    IN  Arr([k \in 1..Len(kept) |-> [id |-> kept[k], count |-> 1]])

\* Customer.sum('monthlyInstallment')
MonthlyPaymentsQuery ==
    SqlSum([c \in 1..Len(customers) |-> customers[c].monthlyInstallment])

\* Customer.sum('leasingAmount')
TotalInvestedQuery ==
    SqlSum([c \in 1..Len(customers) |-> customers[c].leasingAmount])

\* Payment.sum('amount', { where: { status } })
PaymentSumQuery(st) ==
    LET js == SelectSeq(Idx(Len(payments)), LAMBDA j : payments[j].status = st)
    IN  SqlSum([k \in 1..Len(js) |-> payments[js[k]].amount])

\* Payment.count({ where: { status: 'pending', dueDate: { [Op.lt]: today } } })
OverduePaymentsQuery ==
    Num(Cardinality({ j \in PaymentIds :
                        payments[j].status = "pending" /\ payments[j].pastDue }))

\* (parseFloat(monthlyInstallment) || 0) * (parseInt(leaseDuration) || 0)
\*     - (parseFloat(leasingAmount) || 0), on numeric columns
CustomerProfit(c) ==
    OrZero(Num(customers[c].monthlyInstallment)).v
        * OrZero(Num(customers[c].leaseDuration)).v
        - OrZero(Num(customers[c].leasingAmount)).v

\* customers.reduce((sum, customer) => sum + customerProfit, 0)
ProfitSum == Reduce([c \in 1..Len(customers) |-> CustomerProfit(c)])

\* the nine queries of the handler, in the order it awaits them
DashboardQueries ==
    << "totalCustomers", "activeLeases", "fullyPaidCustomers", "monthlyPayments",
       "totalInvested", "totalCollected", "totalUnpaid", "overduePayments",
       "customers" >>

ProfitFetch == Len(DashboardQueries)

\* the stats object, given whether the customer fetch of the profit block
\* threw: its own catch sets totalProfit = 0 and the handler carries on
DashboardStats(fetchFailed) ==
    LET totalProfit == IF fetchFailed THEN 0 ELSE ProfitSum
    IN  [ kind |-> "dashboard",
          totalCustomers |-> OrZero(TotalCustomersQuery),
          activeLeases |-> OrZero(ActiveLeasesQuery),
          fullyPaidCustomers |-> OrZero(FullyPaidCustomersQuery),
          monthlyPayments |-> OrZero(MonthlyPaymentsQuery),
          totalInvested |-> OrZero(TotalInvestedQuery),
          totalCollected |-> OrZero(PaymentSumQuery("paid")),
          totalUnpaid |-> OrZero(PaymentSumQuery("pending")),
          overduePayments |-> OrZero(OverduePaymentsQuery),
          totalProfit |-> OrZero(Num(totalProfit)) ]

\* failing = 0: every query succeeds; failing = k: the k-th query rejects
Dashboard(h, failing) ==
    LET r == Request("dashboard", h, NoArg)
    IN  IF ~checkToken(h).next THEN Unauthorized(r)
        ELSE IF failing \in 1..(ProfitFetch - 1)
        THEN ServerError(r, "Server error", failing)
        ELSE Ok(r, DashboardStats(failing = ProfitFetch), ProfitFetch,
                failing = ProfitFetch)

----------------------------------------------------------------------------
(* POST /update-profit                                                     *)

ProfitValues == {-1, 5}
SessionIds == 1..MaxSessions

SessionsAfterUpdateAll(sid, totalProfit) ==
    IF sid # 0 THEN [s \in SessionIds |-> Num(totalProfit)] ELSE sessions

\* if (req.session) { req.session.correctedProfit = totalProfit }; sid = 0
\* is a request without a session
SessionsAfterUpdate(sid, totalProfit) ==
    IF sid # 0 THEN [sessions EXCEPT ![sid] = Num(totalProfit)] ELSE sessions

UpdateProfit(h, sid, totalProfit) ==
    LET r == Request("update-profit", h,
                     [NoArg EXCEPT !.totalProfit = totalProfit, !.sid = sid])
    IN  IF ~checkToken(h).next THEN Unauthorized(r)
        ELSE /\ Serve(r, Json(FreshRes, 200,
                              [kind |-> "update-profit", success |-> TRUE,
                               totalProfit |-> totalProfit]),
                      TRUE, 0, FALSE, IF sid # 0 THEN 1 ELSE 0)
             /\ sessions' = SessionsAfterUpdate(sid, totalProfit)
             /\ NoStream
             /\ UNCHANGED <<customers, payments>>

----------------------------------------------------------------------------
(* GET /export/customers/excel                                             *)

\* res.setHeader(Content-Type, ...); res.setHeader(Content-Disposition, ...);
\* res.send(buffer): the header row and one row per customer, newest first
ExcelResponse ==
    [ status |-> 200,
      contentType |-> "application/vnd.openxmlformats-officedocument.spreadsheetml.sheet",
      disposition |-> "attachment; filename=customers.xlsx",
      body |-> [kind |-> "xlsx", header |-> 1, rows |-> Reverse(Idx(Len(customers)))],
      finished |-> TRUE ]

ExportCustomersExcel(h) ==
    LET r == Request("export/customers/excel", h, NoArg)
    IN  IF ~checkToken(h).next THEN Unauthorized(r)
        ELSE \/ /\ Serve(r, ExcelResponse, TRUE, 1, FALSE, 0)
                /\ NoStream
                /\ UNCHANGED <<customers, payments, sessions>>
             \/ ServerError(r, "Export failed", 1)

----------------------------------------------------------------------------
(* GET /export/payments/pdf: the document.  Lengths are in thousandths of  *)
(* a point.  A document is its pages, each the sequence of the items drawn *)
(* on it, and the vertical cursor y.                                       *)

PageTop == 72000          \* new PDFDocument(): letter page, 72 pt margins
PageMaxY == 720000        \* 792 pt high less the bottom margin
BreakThreshold == 700000  \* if (doc.y > 700)
TitleLine == 20808        \* fontSize(18), Helvetica: a line with its gap
TextLine == 13872         \* fontSize(12), Helvetica: a line with its gap
BoldLine == 14280         \* fontSize(12), Helvetica-Bold: a line with its gap
BareLine == 11100         \* doc.currentLineHeight() at 12 pt: without the gap

Item(kind, n) == [kind |-> kind, n |-> n]

\* new PDFDocument(): the first page is there, the cursor at its top
NewDoc ==
    [pages |-> << <<>> >>, y |-> PageTop, row |-> 1, ended |-> FALSE,
     thrown |-> FALSE]

\* doc.addPage()
AddPage(d) == [d EXCEPT !.pages = Append(@, <<>>), !.y = PageTop]

DrawOnLastPage(d, item) ==
    [d EXCEPT !.pages[Len(d.pages)] = Append(@, item)]

\* doc.text(...) of one line of height lh at the cursor: a line that would
\* pass the bottom margin continues on a new page, which the document adds
\* by itself
Text(d, item, lh) ==
    LET at == IF d.y + lh > PageMaxY THEN AddPage(d) ELSE d
    IN  [DrawOnLastPage(at, item) EXCEPT !.y = at.y + lh]

\* doc.text(str, x, y, ...)
TextAt(d, item, y, lh) == Text([d EXCEPT !.y = y], item, lh)

\* doc.moveDown(lines)
MoveDown(d, lines, lh) == [d EXCEPT !.y = @ + lines * lh]

\* The four cells of one table line, each after the first placed at
\* doc.y - doc.currentLineHeight(), then doc.moveDown()
TableLine(d, kinds, n, lh) ==
    LET c1 == TextAt(d, Item(kinds[1], n), d.y, lh)
        c2 == TextAt(c1, Item(kinds[2], n), c1.y - BareLine, lh)
        c3 == TextAt(c2, Item(kinds[3], n), c2.y - BareLine, lh)
        c4 == TextAt(c3, Item(kinds[4], n), c3.y - BareLine, lh)
    IN  MoveDown(c4, 1, lh)

HeaderCells == << "Customer", "Due Date", "Amount", "Status" >>
RowCells == << "customerName", "dueDate", "amount", "status" >>

\* the header row in Helvetica-Bold, the rule under it, and the moveDown
HeaderBlock(d) ==
    MoveDown(DrawOnLastPage(TableLine(d, HeaderCells, 0, BoldLine), Item("rule", 0)),
             1, BoldLine)

\* the title, the generation time and the first header
Preamble ==
    LET t == MoveDown(Text(NewDoc, Item("Payment Report", 0), TitleLine), 1, TitleLine)
        g == MoveDown(Text(t, Item("Generated", 0), TextLine), 2, TextLine)
    IN  HeaderBlock(g)

\* one pass of payments.forEach: the row, then the page break with the
\* header when the cursor has passed the threshold
Row(d, k) ==
    LET drawn == TableLine(d, RowCells, k, TextLine)
    IN  IF drawn.y > BreakThreshold THEN HeaderBlock(AddPage(drawn)) ELSE drawn

CountStatus(js, st) == Len(SelectSeq(js, LAMBDA j : payments[j].status = st))

\* the payments the export query returns: all of them, ORDER BY dueDate ASC
ExportedPayments == OrderByDueDate(Idx(Len(payments)))

\* the summary block and doc.end()
SummaryBlock(d, js) ==
    LET paid == SelectSeq(js, LAMBDA j : payments[j].status = "paid")
        totalAmount == Reduce([k \in 1..Len(js) |-> payments[js[k]].amount])
        paidAmount == Reduce([k \in 1..Len(paid) |-> payments[paid[k]].amount])
        s0 == MoveDown(d, 2, TextLine)
        s1 == MoveDown(Text(s0, Item("Summary", 0), BoldLine), 1, BoldLine)
        s2 == Text(s1, Item("Total Payments", Len(js)), TextLine)
        s3 == Text(s2, Item("Paid Payments", Len(paid)), TextLine)
        s4 == Text(s3, Item("Overdue Payments", CountStatus(js, "overdue")), TextLine)
        s5 == Text(s4, Item("Pending Payments", CountStatus(js, "pending")), TextLine)
        s6 == MoveDown(s5, 1, TextLine)
        s7 == Text(s6, Item("Total Amount", totalAmount), TextLine)
        s8 == Text(s7, Item("Paid Amount", paidAmount), TextLine)
        s9 == Text(s8, Item("Remaining Amount", totalAmount - paidAmount), TextLine)
    IN  [s9 EXCEPT !.ended = TRUE]

\* res.setHeader('Content-Type', ...); res.setHeader('Content-Disposition', ...)
PdfHeaders ==
    [FreshRes EXCEPT !.contentType = "application/pdf",
                     !.disposition = "attachment; filename=payment_report.pdf"]

\* The handler from the request to the first header row: the query, the
\* response headers, doc.pipe(res), the title and the header.  From here to
\* its return the handler is one run of synchronous code (pc = "drawing"),
\* during which nothing else runs: no other request, no stream write.
ExportPaymentsPdf(h, queryFails) ==
    LET r == Request("export/payments/pdf", h, NoArg)
    IN  IF ~checkToken(h).next THEN Unauthorized(r)
        ELSE IF queryFails THEN ServerError(r, "Export failed", 1)
        ELSE /\ Serve(r, PdfHeaders, TRUE, 1, FALSE, 0)
             /\ doc' = Preamble
             /\ piped' = TRUE
             /\ pc' = "drawing"
             /\ writeAfterEnd' = FALSE
             /\ UNCHANGED <<customers, payments, sessions>>

Drawing(d) ==
    /\ pc = "drawing"
    /\ doc' = d
    /\ UNCHANGED <<customers, payments, sessions, req, entered, queries,
                   sessionWrites, queryFailed, piped, writeAfterEnd>>

\* the next pass of payments.forEach
DrawRow ==
    /\ doc.row <= Len(ExportedPayments)
    /\ Drawing([Row(doc, doc.row) EXCEPT !.row = doc.row + 1])
    /\ UNCHANGED <<res, pc>>

\* after the last row: the summary block, doc.end(), and the handler returns
DrawSummary ==
    /\ doc.row = Len(ExportedPayments) + 1
    /\ Drawing(SummaryBlock(doc, ExportedPayments))
    /\ pc' = "idle"
    /\ UNCHANGED res

\* Drawing throws: catch (error) { res.status(500).json(...) }.  The pipe
\* set up before the drawing stays in place, with the chunks the document
\* has buffered.
DrawThrows ==
    /\ Drawing([doc EXCEPT !.thrown = TRUE])
    /\ res' = Json(res, 500, Message("Export failed"))
    /\ pc' = "idle"

\* The piped document flows once the handler has returned: its chunks are
\* written to res, and res is ended when the document has ended.  A write
\* to a response already ended is refused.
StreamFlow ==
    /\ piped
    /\ pc = "idle"
    /\ piped' = FALSE
    /\ IF res.finished
       THEN /\ writeAfterEnd' = TRUE
            /\ res' = res
       ELSE /\ writeAfterEnd' = FALSE
            /\ res' = [res EXCEPT !.body = [kind |-> "pdf", pages |-> doc.pages],
                                  !.finished = doc.ended]
    /\ UNCHANGED <<customers, payments, sessions, req, entered, queries,
                   sessionWrites, queryFailed, doc, pc>>

----------------------------------------------------------------------------
(* Specifications.                                                         *)

\* Before the first request.
Idle ==
    /\ sessions = [s \in SessionIds |-> Undefined]
    /\ req = Request("none", NoHeader, NoArg)
    /\ res = FreshRes
    /\ entered = FALSE
    /\ queries = 0
    /\ queryFailed = FALSE
    /\ sessionWrites = 0
    /\ doc = NoDoc
    /\ pc = "idle"
    /\ piped = FALSE
    /\ writeAfterEnd = FALSE

Customer(leasing) ==
    [leasingAmount |-> leasing, monthlyInstallment |-> 1, leaseDuration |-> 2]
Payment(c, amount, st, past) ==
    [customerId |-> c, amount |-> amount, status |-> st, pastDue |-> past]

\* A few data sets for the requests that differ in their credentials and
\* sessions: empty; one customer without payments; two customers, one with
\* a paid, a pending and an overdue payment.
SampleStores ==
    { [customers |-> <<>>, payments |-> <<>>],
      [customers |-> << Customer(1) >>, payments |-> <<>>],
      [customers |-> << Customer(1), Customer(2) >>,
       payments |-> << Payment(1, 1, "paid", TRUE), Payment(1, 2, "pending", TRUE),
                       Payment(1, 1, "overdue", TRUE) >>] }

\* Every endpoint, under every credential and session, over the sample data.
Init ==
    /\ \E st \in SampleStores : customers = st.customers /\ payments = st.payments
    /\ Idle

Next ==
    \E h \in Headers :
        \/ Summary(h)
        \/ Monthly(h)
        \/ \E status \in StatusFilters : Customers(h, status)
        \/ CarBrands(h)
        \/ \E paymentStatus \in {"", "paid"} : Filtered(h, paymentStatus)
        \/ \E customerId \in 1..MaxCustomers : History(h, customerId)
        \/ \E failing \in 0..ProfitFetch : Dashboard(h, failing)
        \/ \E sid \in 0..MaxSessions, totalProfit \in ProfitValues :
               UpdateProfit(h, sid, totalProfit)
        \/ ExportCustomersExcel(h)
        \/ \E queryFails \in BOOLEAN : ExportPaymentsPdf(h, queryFails)
        \/ DrawRow
        \/ DrawSummary
        \/ DrawThrows
        \/ StreamFlow

Spec == Init /\ [][Next]_vars

\* The aggregate reports of an authorized client over every data set within
\* the bounds.
DataInit ==
    /\ customers \in CustomerTables(MaxCustomers)
    /\ payments \in PaymentTables(Len(customers), MaxPayments)
    /\ Idle

DataNext ==
    \/ Summary(ValidHeader)
    \/ \E status \in StatusFilters : Customers(ValidHeader, status)
    \/ \E customerId \in 1..MaxCustomers : History(ValidHeader, customerId)
    \/ \E failing \in 0..ProfitFetch : Dashboard(ValidHeader, failing)

DataSpec == DataInit /\ [][DataNext]_vars

\* The PDF export of an authorized client over payment tables long enough
\* to fill pages.
PdfInit ==
    /\ customers = << Customer(1) >>
    /\ \E n \in 0..MaxRows, st \in Statuses :
           payments = [k \in 1..n |-> Payment(1, 1, st, TRUE)]
    /\ Idle

PdfNext ==
    \/ \E queryFails \in BOOLEAN : ExportPaymentsPdf(ValidHeader, queryFails)
    \/ DrawRow
    \/ DrawSummary
    \/ DrawThrows
    \/ StreamFlow

PdfSpec == PdfInit /\ [][PdfNext]_vars

----------------------------------------------------------------------------
(* Properties.                                                             *)

Served(endpoint) == req.endpoint = endpoint /\ entered
Answered(endpoint) == Served(endpoint) /\ res.status = 200 /\ res.finished

\* the header is absent, does not start with 'Bearer ', or has nothing, or
\* a space, right after 'Bearer ' (an empty token)
Malformed(h) ==
    \/ ~h.present
    \/ ~StartsWith(h.value, Str_BearerSp)
    \/ Len(h.value) = Len(Str_BearerSp)
    \/ h.value[Len(Str_BearerSp) + 1] = " "

\* C1: a request to any endpoint whose Authorization header is absent, does
\* not start with 'Bearer ' or carries an empty token is answered 401, and
\* its handler is not entered: no query, no session write, no document.
C1_MalformedCredentialIs401 ==
    (req.endpoint # "none" /\ Malformed(req.authorization))
        => /\ res.status = 401
           /\ res.finished
           /\ res.body.kind = "message"
           /\ ~entered
           /\ queries = 0
           /\ sessionWrites = 0
           /\ doc = NoDoc
           /\ ~piped

C1_Witness ==
    /\ req.endpoint = "update-profit"
    /\ req.arg.sid = 1
    /\ req.authorization = Header(Str_BearerSp)
    /\ res.status = 401
    /\ sessions[1] = Undefined

SumOver(S, f(_)) == SumSeq([k \in 1..Len(S) |-> f(S[k])])

LeasingTotal == SumOver(Idx(Len(customers)), LAMBDA c : customers[c].leasingAmount)
PaidTotal ==
    SumOver(SelectSeq(Idx(Len(payments)), LAMBDA j : payments[j].status = "paid"),
            LAMBDA j : payments[j].amount)

\* C2: the summary's total_invested is the sum of leasing_amount taken once
\* per customer, and total_profit is the paid amounts less that sum.
C2_InvestedOncePerCustomer ==
    Answered("summary")
        => /\ OrZero(res.body.total_invested).v = LeasingTotal
           /\ res.body.total_profit.v = PaidTotal - LeasingTotal

SummaryNumbers(b) ==
    << b.total_customers, b.total_invested, b.total_collected, b.total_pending,
       b.overdue_customers, b.completed_customers, b.total_profit >>

\* C3: on an empty data set every numeric field of the summary is the
\* number 0, none null or undefined.
C3_EmptySummaryAllZero ==
    (Answered("summary") /\ customers = <<>> /\ payments = <<>>)
        => \A k \in 1..7 :
               /\ IsNum(SummaryNumbers(res.body)[k])
               /\ SummaryNumbers(res.body)[k].v = 0

\* C4: in a customer's history, paidAmount + remainingAmount = totalAmount,
\* whatever the statuses of the payments.
C4_HistoryPartition ==
    Answered("history")
        => res.body.paidAmount + res.body.remainingAmount = res.body.totalAmount

NoPayments == { c \in CustomerIds : \A j \in PaymentIds : payments[j].customerId # c }

\* customers with a payment and none pending
PaidUp ==
    { c \in CustomerIds \ NoPayments :
        \A j \in PaymentIds :
            payments[j].customerId = c => payments[j].status # "pending" }

\* customers with a pending payment due before now
Late ==
    { c \in CustomerIds :
        \E j \in PaymentIds : /\ payments[j].customerId = c
                              /\ payments[j].status = "pending"
                              /\ payments[j].pastDue }

ReportedIds == { res.body.rows[k].id : k \in 1..Len(res.body.rows) }

\* C5: a customer with zero payments is completed and not overdue: counted
\* in completed_customers and not in overdue_customers, listed under
\* status=completed and not under status=overdue.
C5_NoPaymentsIsCompleted ==
    /\ Answered("summary")
           => /\ res.body.completed_customers.v = Cardinality(NoPayments \cup PaidUp)
              /\ res.body.overdue_customers.v = Cardinality(Late \ NoPayments)
    /\ (Answered("customers") /\ req.arg.status = "completed")
           => NoPayments \subseteq ReportedIds
    /\ (Answered("customers") /\ req.arg.status = "overdue")
           => NoPayments \cap ReportedIds = {}

C5_Witness ==
    /\ Answered("customers")
    /\ req.arg.status = "completed"
    /\ NoPayments # {}
    /\ Late # {}
    /\ ReportedIds = NoPayments

\* C6: the dashboard's fullyPaidCustomers is a number, the same as the
\* summary's completed_customers: the count of customers with no pending
\* payment.
C6_FullyPaidIsCompletedCount ==
    Answered("dashboard")
        => /\ IsNum(res.body.fullyPaidCustomers)
           /\ res.body.fullyPaidCustomers.v = SummaryRow.completed_customers.v

\* C7: the dashboard is all-or-nothing: when one of its queries fails the
\* answer is a 500 with no stats, and the totalProfit of a stats object is
\* the sum over the customers of installment * duration - leasing amount.
C7_DashboardAllOrNothing ==
    Served("dashboard")
        => /\ queryFailed => res.status = 500 /\ res.body.kind = "message"
           /\ res.status = 200 => res.body.totalProfit.v = ProfitSum

\* C8: a failure of the PDF export, in the query or while the document is
\* drawn, gives the client one response, a 500: no PDF bytes, and nothing
\* is sent on the response after it.
C8_PdfFailureOneResponse ==
    (Served("export/payments/pdf") /\ pc = "idle" /\ (queryFailed \/ doc.thrown))
        => /\ res.status = 500
           /\ res.body.kind = "message"
           /\ ~writeAfterEnd

TableContent(kind) == kind \notin {"Payment Report", "Generated", "rule"}

HeaderAbove(page, i) ==
    \A h \in 1..Len(HeaderCells) :
        \E j \in 1..(i - 1) : page[j].kind = HeaderCells[h]

\* C9: every page of the exported document has the header row at its top:
\* no row and no summary line is on a page above that page's header, the
\* page of the summary block included.
C9_HeaderOnEveryPage ==
    (Served("export/payments/pdf") /\ doc.ended)
        => \A p \in 1..Len(doc.pages) :
               \A i \in 1..Len(doc.pages[p]) :
                   (TableContent(doc.pages[p][i].kind)
                        /\ doc.pages[p][i].kind \notin
                               { HeaderCells[h] : h \in 1..Len(HeaderCells) })
                       => HeaderAbove(doc.pages[p], i)

\* C10: update-profit answers with the submitted value and writes only the
\* correctedProfit of the requesting session: no step changes the customer
\* and payment tables, a session changes only in an update-profit of its
\* own, and what a summary or a dashboard answers in any step is what the
\* tables gave before the step, whatever update-profits came earlier.
C10_UpdateProfitFrame ==
    [][ /\ customers' = customers
        /\ payments' = payments
        /\ sessions' # sessions => (Answered("update-profit"))'
        /\ (Answered("update-profit"))' =>
               /\ res'.body.totalProfit = req'.arg.totalProfit
               /\ \A s \in SessionIds :
                      sessions'[s] = IF s = req'.arg.sid
                                     THEN Num(req'.arg.totalProfit)
                                     ELSE sessions[s]
        /\ (Answered("summary"))' => res'.body = SummaryBody
        /\ (Answered("dashboard") /\ ~queryFailed)' =>
               res'.body = DashboardStats(FALSE)
      ]_vars

C10_Witness ==
    /\ Answered("update-profit")
    /\ req.arg.sid = 2
    /\ res.body.totalProfit = 5
    /\ sessions[1] = Num(-1)
    /\ sessions[2] = Num(5)
    /\ customers # <<>>

\* customers with at least one pending payment
WithPending ==
    { c \in CustomerIds :
        \E j \in PaymentIds : /\ payments[j].customerId = c
                              /\ payments[j].status = "pending" }

\* C11: the dashboard's activeLeases is the number of distinct customers
\* with at least one pending payment (a customer with several pending
\* payments counts once), so it never exceeds totalCustomers.
C11_ActiveLeasesDistinctCustomers ==
    Answered("dashboard")
        => /\ res.body.activeLeases.v = Cardinality(WithPending)
           /\ res.body.activeLeases.v <= res.body.totalCustomers.v

====
